---- MODULE Spec2Model ----
(***************************************************************************)
(* scripts/make_apple_touch_icon.py: a one-shot script that lays out a     *)
(* flower (polar, make_petal_path), picks its colours (hsl_to_hex),        *)
(* assembles an SVG document and hands it to cairosvg, falling back to     *)
(* writing the SVG itself when cairosvg cannot be imported (main).         *)
(*                                                                         *)
(* Numbers.  Python floats are modelled in two parts, [v, e]:              *)
(*   v  the value in units of 1/Scale (fixed point; the cosine table is    *)
(*      rounded to that resolution);                                       *)
(*   e  what IEEE-754 double arithmetic leaves on top of v where the real  *)
(*      result would be exact: math.cos(-pi/2) and math.cos(pi/2) are      *)
(*      6.123e-17 and math.sin(pi) is 1.225e-16, not 0.  e is counted in   *)
(*      units of 2^-53 / ResScale.                                         *)
(* hsl_to_hex is computed in exact rational arithmetic on integer inputs;  *)
(* where the exact channel value is a tie (k + 1/2) the float evaluation   *)
(* lands on either side of it, so round() may return k or k + 1.           *)
(***************************************************************************)
EXTENDS Integers, Sequences, FiniteSets, TLC

(* ------------------------- module constants -------------------------- *)

BG_COLOR == "#ffdab9"

OUTPUT_PATH == "public/apple-touch-icon.png"

SIZE == 180

(* Literals of main() and of the helpers. *)
petals == 8

petal_width == 80

hue_flower == 30

starting_angle == 0

Spread == 20

FullTurn == 360

HueMax == 360

PctMax == 100

(* -------------------------- bounds of the model ---------------------- *)

\* saturation and lightness are sampled at SatPoints+1 and LightPoints+1
\* values spread over 0..PctMax, both ends included
SatPoints == 10

LightPoints == 20

\* centres -MaxC..MaxC and radii 0..MaxR for the geometry calls
MaxC == 2

MaxR == 3

(* ------------------------------ numbers ------------------------------ *)

Scale == 1000000

ResScale == 10000

Abs(n) == IF n < 0 THEN -n ELSE n

Flt(n) == [v |-> n * Scale, e |-> 0]

\* round(cos(d degrees) * Scale) for d in 0..90, indexed from 1
CosTable ==
  << 1000000, 999848, 999391, 998630, 997564, 996195, 994522,
     992546, 990268, 987688, 984808, 981627, 978148, 974370,
     970296, 965926, 961262, 956305, 951057, 945519, 939693,
     933580, 927184, 920505, 913545, 906308, 898794, 891007,
     882948, 874620, 866025, 857167, 848048, 838671, 829038,
     819152, 809017, 798636, 788011, 777146, 766044, 754710,
     743145, 731354, 719340, 707107, 694658, 681998, 669131,
     656059, 642788, 629320, 615661, 601815, 587785, 573576,
     559193, 544639, 529919, 515038, 500000, 484810, 469472,
     453990, 438371, 422618, 406737, 390731, 374607, 358368,
     342020, 325568, 309017, 292372, 275637, 258819, 241922,
     224951, 207912, 190809, 173648, 156434, 139173, 121869,
     104528, 87156, 69756, 52336, 34899, 17452, 0 >>

\* math.cos of an angle of d degrees, fixed-point part
Cos(d) ==
  LET a == d % 360
  IN  IF a <= 90 THEN CosTable[a + 1]
      ELSE IF a <= 180 THEN -CosTable[180 - a + 1]
      ELSE IF a <= 270 THEN -CosTable[a - 180 + 1]
      ELSE CosTable[360 - a + 1]

\* math.sin of an angle of d degrees, fixed-point part
Sin(d) == Cos(d - 90)

\* What math.cos returns beyond the fixed-point part, for the radian values
\* (angle_deg - 90) * pi / 180 the callers produce (d in -179..269): the float
\* nearest to -pi/2 or pi/2 is not the real number, and its cosine is
\* 6.123233995736766e-17 = 0.5515 * 2^-53.
CosRes(d) == IF d = -90 \/ d = 90 THEN 5515 ELSE 0

\* The same for math.sin: sin(0.0) is 0.0 and sin(+-pi/2) is +-1.0 exactly,
\* sin(float(pi)) is 1.2246467991473532e-16 = 1.1031 * 2^-53.
SinRes(d) == IF d = 180 THEN 11031 ELSE 0

RECURSIVE Pow2Floor(_)
\* the largest power of two not above n, n >= 1
Pow2Floor(n) == IF n < 2 THEN 1 ELSE 2 * Pow2Floor(n \div 2)

\* n / d rounded to the nearest integer, d > 0 (ties up; none arise where used)
RoundDiv(n, d) == (2 * n + d) \div (2 * d)

\* The float sum base + t of an integer base and a tiny term t (in residual
\* units), as the residual left on top of base: the sum is rounded to the
\* doubles around base, whose spacing is 2^(floor(log2 |base|) - 52), halved
\* on the side towards zero when |base| is a power of two; around 0 the tiny
\* term is representable as it is.
Absorb(base, t) ==
  IF base = 0 \/ t = 0 THEN t
  ELSE LET q == Pow2Floor(Abs(base))
           towardsZero == (base > 0) # (t > 0)
           ulp == IF towardsZero /\ Abs(base) = q THEN ResScale * q
                  ELSE 2 * ResScale * q
       IN  ulp * RoundDiv(t, ulp)

(* ------------------------------ polar -------------------------------- *)

\* faulty variant: the angle is not turned by -90 degrees (angle 0 = right)
polar_unrotated(cx, cy, r, angle_deg) ==
  << [v |-> cx * Scale + r * Cos(angle_deg),
      e |-> Absorb(cx, r * CosRes(angle_deg))],
     [v |-> cy * Scale + r * Sin(angle_deg),
      e |-> Absorb(cy, r * SinRes(angle_deg))] >>

polar(cx, cy, r, angle_deg) ==
  LET rad == angle_deg - 90
  IN  << [v |-> cx * Scale + r * Cos(rad), e |-> Absorb(cx, r * CosRes(rad))],
         [v |-> cy * Scale + r * Sin(rad), e |-> Absorb(cy, r * SinRes(rad))] >>

(* --------------------------- make_petal_path ------------------------- *)

\* faulty variant: both control points on the same side of the petal axis
make_petal_path_onesided(cx, cy, width, angle) ==
  LET c1 == polar(cx, cy, width, angle + Spread)
      c2 == polar(cx, cy, width, angle + Spread)
  IN  << [op |-> "M", args |-> << Flt(cx), Flt(cy) >>],
         [op |-> "C", args |-> << c1[1], c1[2], c2[1], c2[2], Flt(cx), Flt(cy) >>] >>

\* The path string "M cx cy C c1x c1y c2x c2y cx cy" as its commands.
make_petal_path(cx, cy, width, angle) ==
  LET c1 == polar(cx, cy, width, angle - Spread)
      c2 == polar(cx, cy, width, angle + Spread)
  IN  << [op |-> "M", args |-> << Flt(cx), Flt(cy) >>],
         [op |-> "C", args |-> << c1[1], c1[2], c2[1], c2[2], Flt(cx), Flt(cy) >>] >>

(* ----------------------------- hsl_to_hex ---------------------------- *)

HexChars == "0123456789abcdef"

RECURSIVE HexDigits(_)
\* the hexadecimal digits of n >= 0, lowercase, no padding
HexDigits(n) ==
  IF n < 16 THEN SubSeq(HexChars, n + 1, n + 1)
  ELSE HexDigits(n \div 16) \o SubSeq(HexChars, (n % 16) + 1, (n % 16) + 1)

\* "{:02x}".format(n): sign, then digits zero-padded to a total width of 2
Format02x(n) ==
  IF n < 0 THEN "-" \o HexDigits(-n)
  ELSE IF n < 16 THEN "0" \o HexDigits(n)
  ELSE HexDigits(n)

\* int(round(num / den)), den > 0: the nearest integer; at an exact tie the
\* float being rounded lies just above or just below it, so either neighbour.
PyRound(num, den) ==
  LET q == num \div den
      r == num % den
  IN  IF 2 * r < den THEN {q}
      ELSE IF 2 * r > den THEN {q + 1}
      ELSE {q, q + 1}

\* faulty variant: the comparisons are <= instead of <
Sextant_inclusive(h) ==
  IF h <= 60 THEN 0
  ELSE IF h <= 120 THEN 1
  ELSE IF h <= 180 THEN 2
  ELSE IF h <= 240 THEN 3
  ELSE IF h <= 300 THEN 4
  ELSE 5

\* the branch the if/elif chain of hsl_to_hex takes, 0..5
Sextant(h) ==
  IF h < 60 THEN 0
  ELSE IF h < 120 THEN 1
  ELSE IF h < 180 THEN 2
  ELSE IF h < 240 THEN 3
  ELSE IF h < 300 THEN 4
  ELSE 5

\* faulty variant: m = l - c instead of l - c / 2
hsl_channels_full_chroma(h, s_pct, l_pct) ==
  LET c == (PctMax - Abs(2 * l_pct - PctMax)) * s_pct
      x == c * (60 - Abs((h % 120) - 60))
      m == 60 * (200 * l_pct - 2 * c)
      c2 == 120 * c
      x2 == 2 * x
      rgb == CASE Sextant(h) = 0 -> << c2, x2, 0 >>
               [] Sextant(h) = 1 -> << x2, c2, 0 >>
               [] Sextant(h) = 2 -> << 0, c2, x2 >>
               [] Sextant(h) = 3 -> << 0, x2, c2 >>
               [] Sextant(h) = 4 -> << x2, 0, c2 >>
               [] OTHER -> << c2, 0, x2 >>
      den == 120 * PctMax * PctMax
  IN  [i \in 1..3 |-> PyRound((rgb[i] + m) * 255, den)]

\* The three values handed to the format call, each as the set of integers
\* int(round((r + m) * 255)) can be.  With s = s_pct / 100 and l = l_pct / 100:
\*   c = c' / 100^2,  x = x' / (60 * 100^2),  m = m' / (120 * 100^2)
hsl_channels(h, s_pct, l_pct) ==
  LET c == (PctMax - Abs(2 * l_pct - PctMax)) * s_pct
      x == c * (60 - Abs((h % 120) - 60))
      m == 60 * (200 * l_pct - c)
      c2 == 120 * c
      x2 == 2 * x
      rgb == CASE Sextant(h) = 0 -> << c2, x2, 0 >>
               [] Sextant(h) = 1 -> << x2, c2, 0 >>
               [] Sextant(h) = 2 -> << 0, c2, x2 >>
               [] Sextant(h) = 3 -> << 0, x2, c2 >>
               [] Sextant(h) = 4 -> << x2, 0, c2 >>
               [] OTHER -> << c2, 0, x2 >>
      den == 120 * PctMax * PctMax
  IN  [i \in 1..3 |-> PyRound((rgb[i] + m) * 255, den)]

\* the strings hsl_to_hex(h, s_pct, l_pct) can return
hsl_to_hex(h, s_pct, l_pct) ==
  LET ch == hsl_channels(h, s_pct, l_pct)
  IN  { "#" \o Format02x(r) \o Format02x(g) \o Format02x(b) :
          r \in ch[1], g \in ch[2], b \in ch[3] }

(* ------------------------------ strings ------------------------------ *)

RECURSIVE Replace(_, _, _)
\* str.replace(old, new): every non-overlapping occurrence, left to right
Replace(s, old, new) ==
  IF Len(s) < Len(old) \/ Len(old) = 0 THEN s
  ELSE IF SubSeq(s, 1, Len(old)) = old
       THEN new \o Replace(SubSeq(s, Len(old) + 1, Len(s)), old, new)
       ELSE SubSeq(s, 1, 1) \o Replace(SubSeq(s, 2, Len(s)), old, new)

RECURSIVE LastSlash(_, _)
\* p.rfind("/") + 1 searched downwards from position i
LastSlash(p, i) ==
  IF i = 0 THEN 0
  ELSE IF SubSeq(p, i, i) = "/" THEN i
  ELSE LastSlash(p, i - 1)

RECURSIVE RStripSlash(_)
RStripSlash(p) ==
  IF Len(p) > 0 /\ SubSeq(p, Len(p), Len(p)) = "/"
  THEN RStripSlash(SubSeq(p, 1, Len(p) - 1))
  ELSE p

\* os.path.dirname (posixpath): the head up to the last slash, trailing
\* slashes stripped unless the head is all slashes
dirname(p) ==
  LET head == SubSeq(p, 1, LastSlash(p, Len(p)))
  IN  IF RStripSlash(head) = "" THEN head ELSE RStripSlash(head)

StartsWith(s, prefix) ==
  Len(s) >= Len(prefix) /\ SubSeq(s, 1, Len(prefix)) = prefix

(* ------------------------------- state ------------------------------- *)

VARIABLES
  pc,            \* main(): the line about to run, "done" (normal return) or "crashed"
  env,           \* what the run finds: permissions, disk space, cairosvg
  fs,            \* the output directory and the two output paths
  cx, cy,        \* locals of main()
  petal_color, center_color,
  paths, j,
  svg, svg_path,
  stdout,        \* the lines printed
  calls,         \* the calls main() made out of the script, in order
  exc,           \* the exception that ended the run, "none" otherwise
  call, ret      \* a direct call of one helper and what it returned

vars == << pc, env, fs, cx, cy, petal_color, center_color, paths, j,
           svg, svg_path, stdout, calls, exc, call, ret >>

mainVars == << pc, env, fs, cx, cy, petal_color, center_color, paths, j,
               svg, svg_path, stdout, calls, exc >>

(* ----------------------------- filesystem ---------------------------- *)

\* os.path.dirname(OUTPUT_PATH), line 93
OutDir == dirname(OUTPUT_PATH)

\* OUTPUT_PATH.replace(".png", ".svg"), line 105
SvgPath == Replace(OUTPUT_PATH, ".png", ".svg")

Absent == [kind |-> "absent"]

Dir == [kind |-> "dir"]

File(data) == [kind |-> "file", data |-> data]

\* a file left by something else than this run
OldFile == File([fmt |-> "old"])

FsPaths == {OutDir, OUTPUT_PATH, SvgPath}

Terminal == {"done", "crashed"}

(* ------------------------------- main -------------------------------- *)

\* the markup of lines 83-91 as its elements, in document order
Markup(ps, petalc, centerc, x, y) ==
  << [tag |-> "svg", viewBox |-> << 0, 0, SIZE, SIZE >>,
      width |-> SIZE, height |-> SIZE],
     [tag |-> "rect", width |-> "100%", height |-> "100%", fill |-> BG_COLOR],
     [tag |-> "g", fill |-> petalc, stroke |-> petalc, strokeWidth |-> 2] >>
  \o [i \in 1..Len(ps) |-> [tag |-> "path", d |-> ps[i]]]
  \o << [tag |-> "circle", cx |-> Flt(x), cy |-> Flt(y),
         r |-> [v |-> petal_width * 14 * (Scale \div 100), e |-> 0],
         fill |-> centerc] >>

\* faulty variant: no except clause, every exception propagates
AfterRaiseInTry_uncaught(e) == "crashed"

\* faulty variant: the handler runs the try block again
AfterRaiseInTry_retry(e) == IF e = "ImportError" THEN "L96" ELSE "crashed"

\* faulty variant: "except Exception", every failure takes the fallback
AfterRaiseInTry_catch_all(e) == "L104"

\* where an exception raised inside the try block of lines 95-103 goes
AfterRaiseInTry(e) == IF e = "ImportError" THEN "L104" ELSE "crashed"

\* lines 64-77
Setup ==
  /\ pc = "L64"
  /\ cx' = SIZE \div 2
  /\ cy' = SIZE \div 2
  /\ petal_color' \in hsl_to_hex(hue_flower, 70, 50)
  /\ center_color' \in hsl_to_hex(hue_flower - 20, 65, 45)
  /\ paths' = << >>
  /\ j' = 0
  /\ pc' = "L78"
  /\ UNCHANGED << env, fs, svg, svg_path, stdout, calls, exc, call, ret >>

\* faulty variant: the loop stops one petal short
LoopCount_short == petals - 1

\* range(petals)
LoopCount == petals

\* lines 78-80, one iteration
LoopPetal ==
  /\ pc = "L78"
  /\ j < LoopCount
  /\ LET segment == FullTurn \div petals
         angle == segment * j + starting_angle
     IN  paths' = Append(paths, make_petal_path(cx, cy, petal_width, angle))
  /\ j' = j + 1
  /\ UNCHANGED << pc, env, fs, cx, cy, petal_color, center_color,
                  svg, svg_path, stdout, calls, exc, call, ret >>

\* lines 82-91, once the loop is exhausted
Assemble ==
  /\ pc = "L78"
  /\ j >= LoopCount
  /\ svg' = Markup(paths, petal_color, center_color, cx, cy)
  /\ pc' = "L93"
  /\ UNCHANGED << env, fs, cx, cy, petal_color, center_color, paths, j,
                  svg_path, stdout, calls, exc, call, ret >>

\* faulty variant: exist_ok left out, an existing directory is an error
MakedirsResult_no_exist_ok(d, f) ==
  IF d = "" THEN "FileNotFoundError"
  ELSE IF f[d].kind # "absent" THEN "FileExistsError"
  ELSE IF env.cwdWritable THEN "ok"
  ELSE "PermissionError"

\* what os.makedirs(d, exist_ok=True) does on the filesystem f
MakedirsResult(d, f) ==
  IF d = "" THEN "FileNotFoundError"
  ELSE IF f[d].kind = "dir" THEN "ok"
  ELSE IF f[d].kind = "file" THEN "FileExistsError"
  ELSE IF env.cwdWritable THEN "ok"
  ELSE "PermissionError"

\* line 93
MakeDirs ==
  /\ pc = "L93"
  /\ LET d == dirname(OUTPUT_PATH)
         res == MakedirsResult(d, fs)
     IN  /\ calls' = Append(calls, [line |-> 93, op |-> "makedirs", arg |-> d,
                                    pre |-> IF d \in FsPaths THEN fs[d].kind ELSE "absent",
                                    result |-> res])
         /\ IF res = "ok"
            THEN /\ fs' = [fs EXCEPT ![d] = Dir]
                 /\ pc' = "L96"
                 /\ exc' = exc
            ELSE /\ fs' = fs
                 /\ pc' = "crashed"
                 /\ exc' = res
  /\ UNCHANGED << env, cx, cy, petal_color, center_color, paths, j,
                  svg, svg_path, stdout, call, ret >>

\* line 96
ImportCairosvg ==
  /\ pc = "L96"
  /\ LET res == IF env.cairosvg = "missing" THEN "ImportError" ELSE "ok"
     IN  /\ calls' = Append(calls, [line |-> 96, op |-> "import", arg |-> "cairosvg",
                                    pre |-> env.cairosvg, result |-> res])
         /\ pc' = IF res = "ok" THEN "L97" ELSE AfterRaiseInTry(res)
  /\ UNCHANGED << env, fs, cx, cy, petal_color, center_color, paths, j,
                  svg, svg_path, stdout, exc, call, ret >>

\* How cairosvg.svg2png(bytestring, write_to, output_width, output_height)
\* ends: the library may fail on its own account (env.cairosvg), and writing
\* its output fails like any write to the directory.
Svg2PngResult ==
  IF env.cairosvg = "import_error" THEN "ImportError"
  ELSE IF env.cairosvg = "error" THEN "ValueError"
  ELSE IF ~env.dirWritable THEN "PermissionError"
  ELSE IF env.diskFull THEN "OSError"
  ELSE "ok"

\* lines 97-102
Svg2Png ==
  /\ pc = "L97"
  /\ LET res == Svg2PngResult
         png == [fmt |-> "png", width |-> SIZE, height |-> SIZE, doc |-> svg]
     IN  /\ calls' = Append(calls, [line |-> 97, op |-> "svg2png",
                                    arg |-> [bytestring |-> svg, write_to |-> OUTPUT_PATH],
                                    pre |-> fs[OUTPUT_PATH].kind, result |-> res])
         /\ fs' = IF res = "ok" THEN [fs EXCEPT ![OUTPUT_PATH] = File(png)]
                  ELSE IF res = "OSError"
                  THEN [fs EXCEPT ![OUTPUT_PATH] = File([fmt |-> "partial"])]
                  ELSE fs
         /\ pc' = IF res = "ok" THEN "L103" ELSE AfterRaiseInTry(res)
         /\ exc' = IF res \in {"ok", "ImportError"} THEN exc ELSE res
  /\ UNCHANGED << env, cx, cy, petal_color, center_color, paths, j,
                  svg, svg_path, stdout, call, ret >>

\* line 103
PrintWrote ==
  /\ pc = "L103"
  /\ stdout' = Append(stdout, "Wrote " \o OUTPUT_PATH)
  /\ calls' = Append(calls, [line |-> 103, op |-> "print", arg |-> "", pre |-> "", result |-> "ok"])
  /\ pc' = "done"
  /\ UNCHANGED << env, fs, cx, cy, petal_color, center_color, paths, j,
                  svg, svg_path, exc, call, ret >>

\* lines 104-105: the ImportError is caught
FallbackPath ==
  /\ pc = "L104"
  /\ svg_path' = SvgPath
  /\ pc' = "L106"
  /\ UNCHANGED << env, fs, cx, cy, petal_color, center_color, paths, j,
                  svg, stdout, calls, exc, call, ret >>

\* line 106: open(svg_path, "w") creates or truncates the file
OpenSvg ==
  /\ pc = "L106"
  /\ LET res == IF env.dirWritable THEN "ok" ELSE "PermissionError"
     IN  /\ calls' = Append(calls, [line |-> 106, op |-> "open", arg |-> svg_path,
                                    pre |-> fs[svg_path].kind, result |-> res])
         /\ IF res = "ok"
            THEN /\ fs' = [fs EXCEPT ![svg_path] = File([fmt |-> "text", doc |-> << >>])]
                 /\ pc' = "L107"
                 /\ exc' = exc
            ELSE /\ fs' = fs
                 /\ pc' = "crashed"
                 /\ exc' = res
  /\ UNCHANGED << env, cx, cy, petal_color, center_color, paths, j,
                  svg, svg_path, stdout, call, ret >>

\* line 107 and the end of the with block: the text reaches the file
WriteSvg ==
  /\ pc = "L107"
  /\ LET res == IF env.diskFull THEN "OSError" ELSE "ok"
     IN  /\ calls' = Append(calls, [line |-> 107, op |-> "write", arg |-> svg,
                                    pre |-> fs[svg_path].kind, result |-> res])
         /\ IF res = "ok"
            THEN /\ fs' = [fs EXCEPT ![svg_path] = File([fmt |-> "text", doc |-> svg])]
                 /\ pc' = "L108"
                 /\ exc' = exc
            ELSE /\ fs' = fs
                 /\ pc' = "crashed"
                 /\ exc' = res
  /\ UNCHANGED << env, cx, cy, petal_color, center_color, paths, j,
                  svg, svg_path, stdout, call, ret >>

\* line 108
PrintNotice ==
  /\ pc = "L108"
  /\ stdout' = Append(stdout, "Wrote " \o svg_path
         \o " (cairosvg not installed; run: pip install cairosvg, then re-run to get PNG)")
  /\ calls' = Append(calls, [line |-> 108, op |-> "print", arg |-> "", pre |-> "", result |-> "ok"])
  /\ pc' = "L109"
  /\ UNCHANGED << env, fs, cx, cy, petal_color, center_color, paths, j,
                  svg, svg_path, exc, call, ret >>

\* line 109
PrintHint ==
  /\ pc = "L109"
  /\ stdout' = Append(stdout,
         "Or convert manually: cairosvg -o public/apple-touch-icon.png -W 180 -H 180 public/apple-touch-icon.svg")
  /\ calls' = Append(calls, [line |-> 109, op |-> "print", arg |-> "", pre |-> "", result |-> "ok"])
  /\ pc' = "done"
  /\ UNCHANGED << env, fs, cx, cy, petal_color, center_color, paths, j,
                  svg, svg_path, exc, call, ret >>

\* The states main() can start in.  A directory that does not exist holds no
\* files and is writable once made; whether the working directory is writable
\* matters only then.
Init ==
  /\ pc = "L64"
  /\ \E d \in {"absent", "dir", "file"}, cw, dw, full \in BOOLEAN,
        lib \in {"missing", "ok", "error", "import_error"},
        png, old \in {Absent, OldFile} :
       /\ d # "dir" => (dw /\ png = Absent /\ old = Absent)
       /\ d # "absent" => cw
       /\ env = [cwdWritable |-> cw, dirWritable |-> dw, diskFull |-> full,
                 cairosvg |-> lib]
       /\ fs = [p \in FsPaths |->
                  IF p = OutDir THEN [kind |-> d]
                  ELSE IF p = OUTPUT_PATH THEN png ELSE old]
  /\ cx = 0 /\ cy = 0
  /\ petal_color = "" /\ center_color = ""
  /\ paths = << >> /\ j = 0
  /\ svg = << >> /\ svg_path = ""
  /\ stdout = << >> /\ calls = << >>
  /\ exc = "none"
  /\ call = [fn |-> "main"] /\ ret = << >>

Next ==
  \/ Setup
  \/ LoopPetal
  \/ Assemble
  \/ MakeDirs
  \/ ImportCairosvg
  \/ Svg2Png
  \/ PrintWrote
  \/ FallbackPath
  \/ OpenSvg
  \/ WriteSvg
  \/ PrintNotice
  \/ PrintHint

Spec == Init /\ [][Next]_vars

(* ------------------------ the helpers called directly ---------------- *)

\* main() at rest, while a helper is called on its own
MainIdle ==
  /\ pc = "idle"
  /\ env = [cwdWritable |-> TRUE, dirWritable |-> TRUE, diskFull |-> FALSE,
            cairosvg |-> "ok"]
  /\ fs = [p \in FsPaths |-> Absent]
  /\ cx = 0 /\ cy = 0
  /\ petal_color = "" /\ center_color = ""
  /\ paths = << >> /\ j = 0
  /\ svg = << >> /\ svg_path = ""
  /\ stdout = << >> /\ calls = << >>
  /\ exc = "none"

\* n + 1 percentages spread over 0..PctMax, with both ends and the middle
Percentages(n) == {(k * PctMax) \div n : k \in 0..n} \cup {PctMax \div 2}

Hues == 0..(HueMax - 1)

InitHsl ==
  /\ MainIdle
  /\ \E h \in Hues, s \in Percentages(SatPoints), l \in Percentages(LightPoints) :
       call = [fn |-> "hsl_to_hex", h |-> h, s_pct |-> s, l_pct |-> l]
  /\ ret = ""

\* hsl_to_hex(h, s_pct, l_pct) returns
CallHsl ==
  /\ call.fn = "hsl_to_hex"
  /\ ret = ""
  /\ ret' \in hsl_to_hex(call.h, call.s_pct, call.l_pct)
  /\ UNCHANGED << mainVars, call >>

NextHsl == CallHsl

SpecHsl == InitHsl /\ [][NextHsl]_vars

Centres == (-MaxC)..MaxC

Radii == 0..MaxR

Angles == {a \in 0..(FullTurn - 1) : a % 5 = 0}

\* the centre and petal radius main() uses
MainRing == [cx |-> SIZE \div 2, cy |-> SIZE \div 2, r |-> petal_width]

InitGeom ==
  /\ MainIdle
  /\ \/ \E x, y \in Centres, r \in Radii, a \in Angles :
          call = [fn |-> "polar", cx |-> x, cy |-> y, r |-> r, angle_deg |-> a]
     \/ \E x, y \in Centres, r \in Radii :
          call = [fn |-> "petals", cx |-> x, cy |-> y, r |-> r]
     \/ call = [fn |-> "petals", cx |-> MainRing.cx, cy |-> MainRing.cy,
                r |-> MainRing.r]
  /\ ret = << >>

\* polar(cx, cy, r, angle_deg) returns
CallPolar ==
  /\ call.fn = "polar"
  /\ ret = << >>
  /\ ret' = polar(call.cx, call.cy, call.r, call.angle_deg)
  /\ UNCHANGED << mainVars, call >>

\* the loop of lines 75-80 around a given centre with a given petal radius
PetalRing(x, y, width) ==
  LET segment == FullTurn \div petals
  IN  [k \in 1..LoopCount |->
         make_petal_path(x, y, width, segment * (k - 1) + starting_angle)]

\* make_petal_path is called once per petal angle
CallPetals ==
  /\ call.fn = "petals"
  /\ ret = << >>
  /\ ret' = PetalRing(call.cx, call.cy, call.r)
  /\ UNCHANGED << mainVars, call >>

NextGeom ==
  \/ CallPolar
  \/ CallPetals

SpecGeom == InitGeom /\ [][NextGeom]_vars

(* ============================ the claims ============================= *)

Called(op) == \E i \in DOMAIN calls : calls[i].op = op

Succeeded(op) == \E i \in DOMAIN calls : calls[i].op = op /\ calls[i].result = "ok"

ImportFailed ==
  \E i \in DOMAIN calls : calls[i].op = "import" /\ calls[i].result = "ImportError"

\* every call so far went through, or raised the ImportError main() handles
NoErrorSoFar == \A i \in DOMAIN calls : calls[i].result \in {"ok", "ImportError"}

\* the raster path holds an image this run had rendered from its markup
RasterWritten ==
  fs[OUTPUT_PATH] = File([fmt |-> "png", width |-> 180, height |-> 180, doc |-> svg])

\* the vector path holds the markup, as it is
VectorWritten ==
  fs["public/apple-touch-icon.svg"] = File([fmt |-> "text", doc |-> svg])

\* the raster path is as the run found it
RasterUntouched == fs[OUTPUT_PATH] \in {Absent, OldFile}

NoticePrinted ==
  /\ Len(stdout) >= 1
  /\ StartsWith(stdout[1], "Wrote public/apple-touch-icon.svg (cairosvg not installed")

(* C1: when importing cairosvg raises ImportError, main() recovers: the run  *)
(* goes on to the fallback write, never calls the rasterizer, leaves the     *)
(* raster path alone and never ends with the ImportError; and, the fallback  *)
(* write itself not failing, it returns normally with the markup verbatim in *)
(* public/apple-touch-icon.svg and the notice naming that file printed.      *)
C1_ImportErrorRecovered ==
  (pc \in Terminal /\ ImportFailed) =>
    /\ Called("open")
    /\ ~Called("svg2png")
    /\ RasterUntouched
    /\ exc # "ImportError"
    /\ (env.dirWritable /\ ~env.diskFull) =>
         /\ pc = "done"
         /\ exc = "none"
         /\ svg_path = "public/apple-touch-icon.svg"
         /\ VectorWritten
         /\ NoticePrinted

\* C1's case: cairosvg is missing, an older raster file is in place, the run returned
C1_Witness ==
  /\ pc = "done"
  /\ ImportFailed
  /\ VectorWritten
  /\ fs[OUTPUT_PATH] = OldFile

RasterOutcome == RasterWritten /\ stdout = << "Wrote public/apple-touch-icon.png" >>

VectorOutcome == VectorWritten /\ NoticePrinted /\ Len(stdout) = 2

(* C2: a run in which no filesystem or rasterizer error occurs never stops   *)
(* short of returning, and returns in exactly one of the two outcomes        *)
(* "raster image written" and "vector document written with a notice"; the   *)
(* calls main() makes follow the source top to bottom, none made twice, the  *)
(* rasterizer called at most once.                                           *)
C2_LinearTwoOutcomes ==
  /\ \A i, k \in DOMAIN calls : i < k => calls[i].line < calls[k].line
  /\ Cardinality({i \in DOMAIN calls : calls[i].op = "svg2png"}) <= 1
  /\ pc \notin Terminal => ENABLED Next
  /\ NoErrorSoFar => pc # "crashed"
  /\ (pc = "done") => (RasterOutcome # VectorOutcome)

\* C2's case: the rasterizer was there, was called and the run returned
C2_Witness ==
  /\ pc = "done"
  /\ RasterOutcome
  /\ Cardinality({i \in DOMAIN calls : calls[i].op = "svg2png"}) = 1

(* C3: a failure other than the ImportError (makedirs failing, svg2png       *)
(* raising something else, the fallback open or write failing) ends the run  *)
(* with that exception: nothing is called after it, so no fallback is tried  *)
(* for it, nothing has been printed, and a printed "Wrote <file>" always     *)
(* names a file the run did write.                                           *)
C3_OtherFailuresFatal ==
  /\ \A i \in DOMAIN calls :
       calls[i].result \notin {"ok", "ImportError"} =>
         /\ i = Len(calls)
         /\ pc = "crashed"
         /\ exc = calls[i].result
         /\ calls[i].op \in {"makedirs", "svg2png"} =>
              (~Called("open") /\ fs[SvgPath] \in {Absent, OldFile})
  /\ pc = "crashed" => (stdout = << >> /\ exc \notin {"none", "ImportError"})
  /\ \A k \in DOMAIN stdout :
       /\ StartsWith(stdout[k], "Wrote " \o OUTPUT_PATH) => RasterWritten
       /\ StartsWith(stdout[k], "Wrote " \o SvgPath) => VectorWritten

\* C3's case: the rasterizer ran out of disk space under an older vector file
C3_Witness ==
  /\ pc = "crashed"
  /\ exc = "OSError"
  /\ calls[Len(calls)].op = "svg2png"
  /\ fs[SvgPath] = OldFile

(* C4: no output is written (svg2png, open, write) before makedirs has       *)
(* succeeded and the directory exists; makedirs succeeds on a directory that *)
(* is already there; a run that returned wrote exactly one of the two files. *)
C4_DirThenOneFile ==
  /\ \A i \in DOMAIN calls :
       calls[i].op \in {"svg2png", "open", "write"} =>
         /\ i > 1
         /\ calls[1].op = "makedirs"
         /\ calls[1].result = "ok"
         /\ fs[OutDir] = Dir
  /\ (Len(calls) >= 1 /\ calls[1].pre = "dir") => calls[1].result = "ok"
  /\ pc = "done" =>
       /\ RasterWritten # VectorWritten
       /\ Succeeded("svg2png") # Succeeded("write")

\* C4's case: the directory was already there and the run wrote the raster file
C4_Witness ==
  /\ pc = "done"
  /\ calls[1].pre = "dir"
  /\ RasterWritten
  /\ ~VectorWritten

CountTag(doc, t) == Cardinality({i \in DOMAIN doc : doc[i].tag = t})

C6_FivePetals ==
  pc \in {"L93", "L96", "L97", "L103", "L104", "L106", "L107", "L108", "L109",
          "done", "crashed"} => Len(paths) = 5

HexCharSet == {SubSeq(HexChars, i, i) : i \in 1..Len(HexChars)}

HslReturned == call.fn = "hsl_to_hex" /\ ret # ""

(* C7: for a hue in 0..359 and percentages in 0..100, hsl_to_hex returns "#" *)
(* followed by exactly 6 lowercase hex digits: each of the three rounded     *)
(* channels lies in 0..255.                                                  *)
C7_HexFormat ==
  HslReturned =>
    /\ Len(ret) = 7
    /\ SubSeq(ret, 1, 1) = "#"
    /\ \A i \in 2..7 : SubSeq(ret, i, i) \in HexCharSet
    /\ \A i \in 1..3 :
         hsl_channels(call.h, call.s_pct, call.l_pct)[i] \subseteq 0..255

\* C7's case: a fully saturated hue of the last sextant, channels at both ends
C7_Witness ==
  /\ HslReturned
  /\ call.h = 359 /\ call.s_pct = 100 /\ call.l_pct = 50
  /\ ret = "#ff0004"

HslCallIs(h, s, l) ==
  HslReturned /\ call.h = h /\ call.s_pct = s /\ call.l_pct = l

(* C8: hsl_to_hex(0,100,50) = #ff0000, hsl_to_hex(120,100,50) = #00ff00,     *)
(* hsl_to_hex(0,0,100) = #ffffff, hsl_to_hex(0,0,0) = #000000, and a hue in  *)
(* [0,360) takes the branch of the 60-degree sextant it lies in, one of six. *)
C8_ReferencePoints ==
  /\ HslCallIs(0, 100, 50) => ret = "#ff0000"
  /\ HslCallIs(120, 100, 50) => ret = "#00ff00"
  /\ HslCallIs(0, 0, 100) => ret = "#ffffff"
  /\ HslCallIs(0, 0, 0) => ret = "#000000"
  /\ call.fn = "hsl_to_hex" =>
       (Sextant(call.h) = call.h \div 60 /\ Sextant(call.h) \in 0..5)

\* C8's case: pure green, a hue on a sextant boundary, has been converted
C8_Witness == HslCallIs(120, 100, 50) /\ ret = "#00ff00"

PolarReturned == call.fn = "polar" /\ ret # << >>

(* C9 as stated: polar(cx, cy, r, 0) equals (cx, cy - r) and                 *)
(* polar(cx, cy, r, 90) equals (cx + r, cy), for every centre and radius.    *)
C9_ExactAxes ==
  PolarReturned =>
    /\ call.angle_deg = 0 => ret = << Flt(call.cx), Flt(call.cy - call.r) >>
    /\ call.angle_deg = 90 => ret = << Flt(call.cx + call.r), Flt(call.cy) >>

(* C9, amended: polar(cx, cy, r, 90) equals (cx + r, cy) exactly;            *)
(* polar(cx, cy, r, 0) has y = cy - r exactly and x equal to cx within       *)
(* floating-point tolerance, |x - cx| <= 2 * r * 6.2e-17 (5585 residual      *)
(* units are 6.2e-17).                                                       *)
C9_AxesWithinTolerance ==
  PolarReturned =>
    /\ call.angle_deg = 90 => ret = << Flt(call.cx + call.r), Flt(call.cy) >>
    /\ call.angle_deg = 0 =>
         /\ ret[2] = Flt(call.cy - call.r)
         /\ ret[1].v = call.cx * Scale
         /\ Abs(ret[1].e) <= 2 * call.r * 5585

\* C9's case: angle 0 around a centre where the cosine's residue survives
C9_Witness ==
  /\ PolarReturned
  /\ call.angle_deg = 0
  /\ call.r > 0
  /\ ret[1].e # 0
  /\ ret[2] = Flt(call.cy - call.r)

PetalsReturned == call.fn = "petals" /\ ret # << >>

\* path p is one cubic curve from the centre back to the centre whose control
\* points are the polar points at the petal radius, 20 degrees either side
PetalShape(p, x, y, r, angle) ==
  /\ Len(p) = 2
  /\ p[1] = [op |-> "M", args |-> << Flt(x), Flt(y) >>]
  /\ Cardinality({i \in DOMAIN p : p[i].op = "C"}) = 1
  /\ p[2].op = "C"
  /\ Len(p[2].args) = 6
  /\ << p[2].args[1], p[2].args[2] >> = polar(x, y, r, angle - 20)
  /\ << p[2].args[3], p[2].args[4] >> = polar(x, y, r, angle + 20)
  /\ << p[2].args[5], p[2].args[6] >> = << Flt(x), Flt(y) >>

RingShape ==
  /\ Len(ret) = 8
  /\ \A k \in DOMAIN ret :
       PetalShape(ret[k], call.cx, call.cy, call.r, 45 * (k - 1))

RingDistinct == \A i, k \in DOMAIN ret : i # k => ret[i] # ret[k]

(* C10 as stated: for any centre and radius, the 8 calls at 0, 45, ..., 315  *)
(* give 8 pairwise distinct paths of the petal shape.                        *)
C10_EightDistinctPaths == PetalsReturned => (RingShape /\ RingDistinct)

(* C10, amended: the 8 calls give 8 paths of the petal shape for any centre  *)
(* and radius, and the 8 paths are pairwise distinct when the radius is not  *)
(* zero (nor lost to rounding against the centre: radii from 1 on, centres   *)
(* of ordinary size).                                                        *)
C10_DistinctForNonzeroRadius ==
  PetalsReturned => (RingShape /\ (call.r # 0 => RingDistinct))

\* C10's case: the ring main() builds, radius 80 around (90, 90)
C10_Witness ==
  /\ PetalsReturned
  /\ call.cx = 90 /\ call.cy = 90 /\ call.r = 80
  /\ Len(ret) = 8

====
